---------------------------- MODULE Spec2Model ----------------------------
(***************************************************************************)
(* A model of readium (src/main.go): the reading-mode proxy.               *)
(*                                                                         *)
(*   - extract (lines 92-177): one pass over the tokens of an HTML         *)
(*     document, keeping the allow-listed markup of the <article> region.  *)
(*     SpecExtract runs the loop one token at a time.                      *)
(*   - readium.ServeHTTP (lines 40-90): the cache of rendered pages behind *)
(*     one mutex, served to concurrent requests.  Spec runs the handler of *)
(*     each request statement by statement.                                *)
(*                                                                         *)
(* Bytes are modelled as sequences of chunks (strings): the output of      *)
(* extract is the sequence of the chunks its Write and Fprintf calls       *)
(* append, in order.                                                       *)
(***************************************************************************)
EXTENDS Integers, Sequences, FiniteSets, TLC

VARIABLES
    \* ---- extract (one invocation) ----
    xpc,            \* "loop": in the for loop of line 101; "returned": after line 104
    consumed,       \* the tokens z.Next() has returned so far (history)
    inArticle,      \* line 96
    discardStack,   \* line 97
    out,            \* line 93: bytes.Buffer, as a sequence of chunks
    xlog,           \* the lines written by log.Printf (lines 165, 168)
    xerr,           \* the error extract returned (line 104); "none" while running
    zend,           \* how the input of the tokenizer ended; "open" before that
    \* ---- readium (the server) ----
    cache,          \* rd.cache (line 31): path -> page
    mu,             \* rd.mu (line 30): the request holding it, 0 when free
    pc,             \* where each request is in ServeHTTP
    path,           \* r.URL.Path of each request
    resp,           \* resp of line 51: the fetched status code and body
    buf,            \* b of line 58: the rendered page
    w,              \* the response written to each request's http.ResponseWriter
    pre,            \* history: rd.cache as the request found it at line 49
    fetched,        \* history: the calls of rd.client.Get each request made
    served,         \* history: the responses written, in order, each with
                    \* the requests of the same path blocked at line 46 then
    nreq            \* history: the requests started

xvars == <<xpc, consumed, inArticle, discardStack, out, xlog, xerr, zend>>
svars == <<cache, mu, pc, path, resp, buf, w, pre, fetched, served, nreq>>
vars == <<xpc, consumed, inArticle, discardStack, out, xlog, xerr, zend,
          cache, mu, pc, path, resp, buf, w, pre, fetched, served, nreq>>

---------------------------------------------------------------------------
(* Bounds of the model.                                                    *)

\* The longest token stream an extraction reads before the ErrorToken.
MaxTokens == 5

---------------------------------------------------------------------------
(* The tokens of golang.org/x/net/html, as extract sees them.              *)

\* The attribute allow-list (lines 179-184; the map is named allowedTags but
\* is looked up with attribute keys, lines 122 and 143).
allowedTags == {"src", "title", "role", "href"}

\* The tags of the case lists of lines 135 and 158.
ContentTags == {"title", "p", "a", "em", "strong", "div", "span", "section",
                "h1", "h2", "h3", "blockquote", "figure", "figcaption",
                "pre", "code"}

\* The tags of the case list of line 114.
VoidTags == {"br", "img"}

Attr(k, v) == [k |-> k, v |-> v]

Tok(type, name, attrs, text) ==
    [type |-> type, name |-> name, attrs |-> attrs, text |-> text]

TextTok(text) == Tok("Text", "", <<>>, text)
StartTok(name, attrs) == Tok("StartTag", name, attrs, "")
EndTok(name) == Tok("EndTag", name, <<>>, "")
SelfClosingTok(name, attrs) == Tok("SelfClosingTag", name, attrs, "")

\* The token streams of the model are built from these tokens: text, the
\* article tag, a content tag with allowed and other attributes, two tags
\* outside every list, an allowed and another self-closing tag.
PAttrs == <<Attr("href", "u"), Attr("class", "c"), Attr("title", "t")>>
BrAttrs == <<Attr("id", "i"), Attr("src", "s")>>

TextTokens == {TextTok("x")}
StartTokens == {StartTok("article", <<>>), StartTok("p", PAttrs),
                StartTok("b", <<>>), StartTok("i", <<>>)}
EndTokens == {EndTok("article"), EndTok("p"), EndTok("b"), EndTok("i")}
SelfClosingTokens == {SelfClosingTok("br", BrAttrs), SelfClosingTok("hr", <<>>)}

\* What z.Err() returns at an ErrorToken: io.EOF at the end of the input,
\* or the error of the reader (here io.ErrUnexpectedEOF).
StreamErrors == {"EOF", "unexpected EOF"}

\* How the input of the tokenizer ends: read to its end, or the reader
\* fails before that.
StreamEnds == {"end of input", "read error"}

\* z.Err() (line 104) after the ErrorToken: the tokenizer reports the end
\* of its input as io.EOF, and a failure of the reader as the reader's error.
ZErr(end) == IF end = "end of input" THEN "EOF" ELSE "unexpected EOF"

---------------------------------------------------------------------------
(* extract, lines 92-177.                                                  *)

\* The state of the loop: the locals of lines 93-98 and the log.
XState(ia, ds, o, lg) ==
    [inArticle |-> ia, discardStack |-> ds, out |-> o, log |-> lg]

XInit == XState(FALSE, <<>>, <<>>, <<>>)

\* FilterAttrs without the lookup in allowedTags.
RECURSIVE FilterAttrs_KeepsAll(_)
FilterAttrs_KeepsAll(attrs) ==
    IF attrs = <<>> THEN <<>>
    ELSE <<Head(attrs).k, "=\"", Head(attrs).v, "\"">>
         \o FilterAttrs_KeepsAll(Tail(attrs))

\* Lines 116-125 and 137-146: the attributes whose key is in allowedTags,
\* each appended as k="v", in the order of the tag, with nothing between.
RECURSIVE FilterAttrs(_)
FilterAttrs(attrs) ==
    IF attrs = <<>> THEN <<>>
    ELSE LET a == Head(attrs)
         IN (IF a.k \in allowedTags THEN <<a.k, "=\"", a.v, "\"">> ELSE <<>>)
            \o FilterAttrs(Tail(attrs))

\* Lines 126 and 147: fmt.Fprintf(&out, "<%s %s>\n", tag, attrs).
OpenTag(tag, attrs) == <<"<", tag, " ">> \o FilterAttrs(attrs) \o <<">\n">>

\* Line 160: fmt.Fprintf(&out, "</%s>\n", tag).
CloseTag(tag) == <<"</", tag, ">\n">>

\* OnText without the test of line 106.
OnText_NoGuard(s, t) == [s EXCEPT !.out = @ \o <<t.text>>]

\* Lines 105-110.  bytes.Buffer.Write returns a nil error, so line 108 is
\* never taken.
OnText(s, t) ==
    IF s.inArticle /\ Len(s.discardStack) = 0
    THEN [s EXCEPT !.out = @ \o <<t.text>>]
    ELSE s

\* Lines 111-129.
OnSelfClosingTag(s, t) ==
    IF t.name \in VoidTags
    THEN IF s.inArticle /\ Len(s.discardStack) = 0
         THEN [s EXCEPT !.out = @ \o OpenTag(t.name, t.attrs)]
         ELSE s
    ELSE s

\* OnStartTag that pushes a content tag it cannot write.
OnStartTag_PushesContent(s, t) ==
    IF t.name = "article"
    THEN [s EXCEPT !.inArticle = TRUE]
    ELSE IF s.inArticle /\ Len(s.discardStack) = 0 /\ t.name \in ContentTags
    THEN [s EXCEPT !.out = @ \o OpenTag(t.name, t.attrs)]
    ELSE IF s.inArticle
         THEN [s EXCEPT !.discardStack = Append(@, t.name)]
         ELSE s

\* Lines 130-153.
OnStartTag(s, t) ==
    IF t.name = "article"
    THEN [s EXCEPT !.inArticle = TRUE]
    ELSE IF t.name \in ContentTags
    THEN IF s.inArticle /\ Len(s.discardStack) = 0
         THEN [s EXCEPT !.out = @ \o OpenTag(t.name, t.attrs)]
         ELSE s
    ELSE IF s.inArticle
         THEN [s EXCEPT !.discardStack = Append(@, t.name)]
         ELSE s

\* OnEndTag that empties the discard stack at the end of the article.
OnEndTag_ClearsAtArticleEnd(s, t) ==
    IF t.name = "article"
    THEN [s EXCEPT !.inArticle = FALSE, !.discardStack = <<>>]
    ELSE IF t.name \in ContentTags
    THEN IF s.inArticle /\ Len(s.discardStack) = 0
         THEN [s EXCEPT !.out = @ \o CloseTag(t.name)]
         ELSE s
    ELSE IF s.inArticle
         THEN IF Len(s.discardStack) = 0
              THEN [s EXCEPT !.log = Append(@, <<"empty stack", t.name>>)]
              ELSE IF s.discardStack[Len(s.discardStack)] # t.name
              THEN [s EXCEPT !.log =
                         Append(@, <<"stack is", t.name, s.discardStack>>)]
              ELSE [s EXCEPT !.discardStack =
                         SubSeq(@, 1, Len(s.discardStack) - 1)]
         ELSE s

\* OnEndTag that pops the discard stack whatever its top is.
OnEndTag_PopsOnMismatch(s, t) ==
    IF t.name = "article"
    THEN [s EXCEPT !.inArticle = FALSE]
    ELSE IF t.name \in ContentTags
    THEN IF s.inArticle /\ Len(s.discardStack) = 0
         THEN [s EXCEPT !.out = @ \o CloseTag(t.name)]
         ELSE s
    ELSE IF s.inArticle
         THEN IF Len(s.discardStack) = 0
              THEN [s EXCEPT !.log = Append(@, <<"empty stack", t.name>>)]
              ELSE [s EXCEPT !.discardStack =
                         SubSeq(@, 1, Len(s.discardStack) - 1)]
         ELSE s

\* Lines 154-174.
OnEndTag(s, t) ==
    IF t.name = "article"
    THEN [s EXCEPT !.inArticle = FALSE]
    ELSE IF t.name \in ContentTags
    THEN IF s.inArticle /\ Len(s.discardStack) = 0
         THEN [s EXCEPT !.out = @ \o CloseTag(t.name)]
         ELSE s
    ELSE IF s.inArticle
         THEN IF Len(s.discardStack) = 0
              THEN [s EXCEPT !.log = Append(@, <<"empty stack", t.name>>)]
              ELSE IF s.discardStack[Len(s.discardStack)] # t.name
              THEN [s EXCEPT !.log =
                         Append(@, <<"stack is", t.name, s.discardStack>>)]
              ELSE [s EXCEPT !.discardStack =
                         SubSeq(@, 1, Len(s.discardStack) - 1)]
         ELSE s

\* The switch of line 102 for a token that is not the ErrorToken.
OnToken(s, t) ==
    CASE t.type = "Text" -> OnText(s, t)
      [] t.type = "SelfClosingTag" -> OnSelfClosingTag(s, t)
      [] t.type = "StartTag" -> OnStartTag(s, t)
      [] t.type = "EndTag" -> OnEndTag(s, t)

\* The loop of lines 101-176 over a whole token sequence.
RECURSIVE ExtractLoop(_, _)
ExtractLoop(s, tokens) ==
    IF tokens = <<>> THEN s
    ELSE ExtractLoop(OnToken(s, Head(tokens)), Tail(tokens))

\* extract(body) for a body whose tokens are doc.tokens and whose ErrorToken
\* carries doc.err: the two results of line 104.
extract(doc) ==
    [out |-> ExtractLoop(XInit, doc.tokens).out, err |-> doc.err]

\* ---- the loop, one token at a time ----

XCur == XState(inArticle, discardStack, out, xlog)

XApply(t) ==
    LET s == OnToken(XCur, t)
    IN /\ inArticle' = s.inArticle
       /\ discardStack' = s.discardStack
       /\ out' = s.out
       /\ xlog' = s.log
       /\ consumed' = Append(consumed, t)
       /\ UNCHANGED <<xpc, xerr, zend>>

XCanRead == xpc = "loop" /\ Len(consumed) < MaxTokens

\* case html.TextToken (line 105)
TextToken ==
    /\ XCanRead
    /\ \E t \in TextTokens : XApply(t)
    /\ UNCHANGED svars

\* case html.SelfClosingTagToken (line 111)
SelfClosingTagToken ==
    /\ XCanRead
    /\ \E t \in SelfClosingTokens : XApply(t)
    /\ UNCHANGED svars

\* case html.StartTagToken (line 130)
StartTagToken ==
    /\ XCanRead
    /\ \E t \in StartTokens : XApply(t)
    /\ UNCHANGED svars

\* case html.EndTagToken (line 154)
EndTagToken ==
    /\ XCanRead
    /\ \E t \in EndTokens : XApply(t)
    /\ UNCHANGED svars

\* ErrorToken that returns no output when the reader failed.
ErrorToken_Discards ==
    /\ xpc = "loop"
    /\ \E end \in StreamEnds :
         /\ zend' = end
         /\ xerr' = ZErr(end)
         /\ out' = IF end = "read error" THEN <<>> ELSE out
    /\ xpc' = "returned"
    /\ UNCHANGED <<consumed, inArticle, discardStack, xlog>>
    /\ UNCHANGED svars

\* case html.ErrorToken (lines 103-104): return out.Bytes(), z.Err()
ErrorToken ==
    /\ xpc = "loop"
    /\ \E end \in StreamEnds :
         /\ zend' = end
         /\ xerr' = ZErr(end)
    /\ xpc' = "returned"
    /\ UNCHANGED <<consumed, inArticle, discardStack, out, xlog>>
    /\ UNCHANGED svars

---------------------------------------------------------------------------
(* readium.ServeHTTP, lines 40-90.                                         *)

\* Line 71: the size above which the cache is dropped.
CacheLimit == 200

\* The requests served at the same time (the goroutines of net/http).
NProcs == 2
\* The requests started in one behaviour.
MaxRequests == 2
\* The paths requested that a warm cache holds.
NHot == 1
\* The paths requested that a warm cache does not hold.
NFresh == 2

Procs == 1..NProcs

\* r.URL.Path: 0 stands for "/", and n > 0 for the path "/n" of an article.
Root == 0
Slug(n) == n

\* len(r.URL.Path), line 41.
PathLen(p) == IF p = Root THEN 1 ELSE 2

RequestPaths ==
    {Root} \cup {Slug(n) : n \in 1..NHot}
           \cup {Slug(CacheLimit + n) : n \in 1..NFresh}

\* Lines 59-66: the fixed head of every page, one chunk (the doctype, the
\* viewport meta tag and the style block, written here in short).
Preamble == <<"<!doctype html><body>...</style>">>

\* Line 42: the page of a path shorter than 2.
Hello == <<"<!doctype html>Hello.">>

\* What medium.com answers: a status code and a body.  A body is the tokens
\* the tokenizer finds in it and the error that ends them: io.EOF for a
\* body read to its end, the reader's error for one cut short.
StatusCodes == {200, 404}

Doc(tokens, err) == [tokens |-> tokens, err |-> err]

FullDoc ==
    Doc(<<StartTok("title", <<>>), TextTok("T"), EndTok("title"),
          StartTok("article", <<>>), StartTok("p", PAttrs), TextTok("x"),
          StartTok("b", <<>>), TextTok("y"), EndTok("b"), EndTok("p"),
          EndTok("article")>>, "EOF")

\* FullDoc cut short inside the paragraph.
CutDoc ==
    Doc(<<StartTok("title", <<>>), TextTok("T"), EndTok("title"),
          StartTok("article", <<>>), StartTok("p", PAttrs), TextTok("x")>>,
        "unexpected EOF")

\* A page without markup.
EmptyDoc == Doc(<<>>, "EOF")

Bodies == {FullDoc, CutDoc}

\* The errors of rd.client.Get (line 51).
GetErrors == {"dial tcp: i/o timeout"}

\* resp of line 51, and its value before rd.client.Get has returned one.
Fetched(code, body) == [StatusCode |-> code, Body |-> body]
NoFetch == Fetched(0, Doc(<<>>, "none"))

\* type page, lines 34-38.
page(hits, code, content) ==
    [hits |-> hits, code |-> code, content |-> content]

\* What a request has written to its http.ResponseWriter.
NoResponse == [kind |-> "none"]
Response(kind, status, body, hits, size) ==
    [kind |-> kind, status |-> status, body |-> body,
     xCacheHits |-> hits, xCacheSize |-> size]

\* rd.cache after the paths /1 ... /n were each requested once, one after
\* the other, and each fetch returned 200 and EmptyDoc.
WarmCache(n) ==
    [q \in {Slug(k) : k \in 1..n} |->
        page(1, 200, Preamble \o extract(EmptyDoc).out)]

\* The server after construction (&readium{}, line 17: a nil map has no
\* entries), or after it has filled its cache up to the limit.
SInit ==
    /\ cache \in {WarmCache(0), WarmCache(CacheLimit)}
    /\ mu = 0
    /\ pc = [i \in Procs |-> "idle"]
    /\ path = [i \in Procs |-> Root]
    /\ resp = [i \in Procs |-> NoFetch]
    /\ buf = [i \in Procs |-> <<>>]
    /\ w = [i \in Procs |-> NoResponse]
    /\ pre = [i \in Procs |-> <<>>]
    /\ fetched = [i \in Procs |-> 0]
    /\ served = <<>>
    /\ nreq = 0

Size(c) == Cardinality(DOMAIN c)

\* The statements of ServeHTTP a request runs with rd.mu held (lines 49-89,
\* then the deferred Unlock of line 47).
Locked == {"lookup", "get", "render", "evict", "insert", "serve", "unlock"}

\* The other requests of the path of request i that are blocked in
\* rd.mu.Lock() (line 46).
Waiting(i) ==
    {j \in Procs \ {i} : pc[j] = "lock" /\ path[j] = path[i]}

\* Lines 40-45: a request arrives; a path shorter than 2 is answered at
\* once, any other goes on to rd.mu.Lock().
Request(i) ==
    /\ pc[i] = "idle"
    /\ nreq < MaxRequests
    /\ nreq' = nreq + 1
    /\ \E p \in RequestPaths :
         /\ path' = [path EXCEPT ![i] = p]
         /\ IF PathLen(p) < 2
            THEN /\ w' = [w EXCEPT ![i] = Response("hello", 200, Hello, 0, 0)]
                 /\ served' = Append(served,
                        [proc |-> i, path |-> p, fetched |-> 0,
                         waiting |-> {},
                         w |-> Response("hello", 200, Hello, 0, 0)])
                 /\ pc' = pc
            ELSE /\ w' = [w EXCEPT ![i] = NoResponse]
                 /\ served' = served
                 /\ pc' = [pc EXCEPT ![i] = "lock"]
    /\ fetched' = [fetched EXCEPT ![i] = 0]
    /\ UNCHANGED <<cache, mu, resp, buf, pre>>
    /\ UNCHANGED xvars

\* Lock that does not wait for the mutex.
Lock_NoWait(i) ==
    /\ pc[i] = "lock"
    /\ mu' = i
    /\ pc' = [pc EXCEPT ![i] = "lookup"]
    /\ UNCHANGED <<cache, path, resp, buf, w, pre, fetched, served, nreq>>
    /\ UNCHANGED xvars

\* Line 46: rd.mu.Lock() returns once the mutex is free.
Lock(i) ==
    /\ pc[i] = "lock"
    /\ mu = 0
    /\ mu' = i
    /\ pc' = [pc EXCEPT ![i] = "lookup"]
    /\ UNCHANGED <<cache, path, resp, buf, w, pre, fetched, served, nreq>>
    /\ UNCHANGED xvars

\* Lookup that never finds the path.
Lookup_AlwaysFetch(i) ==
    /\ pc[i] = "lookup"
    /\ pre' = [pre EXCEPT ![i] = cache]
    /\ pc' = [pc EXCEPT ![i] = "get"]
    /\ UNCHANGED <<cache, mu, path, resp, buf, w, fetched, served, nreq>>
    /\ UNCHANGED xvars

\* Lines 49-50: p, ok := rd.cache[r.URL.Path].
Lookup(i) ==
    /\ pc[i] = "lookup"
    /\ pre' = [pre EXCEPT ![i] = cache]
    /\ pc' = [pc EXCEPT ![i] =
                 IF path[i] \in DOMAIN cache THEN "serve" ELSE "get"]
    /\ UNCHANGED <<cache, mu, path, resp, buf, w, fetched, served, nreq>>
    /\ UNCHANGED xvars

\* GetFail with the size test of line 71 run before the fetch.
GetFail_Evicts(i) ==
    /\ pc[i] = "get"
    /\ fetched' = [fetched EXCEPT ![i] = @ + 1]
    /\ cache' = IF Cardinality(DOMAIN cache) > CacheLimit THEN <<>> ELSE cache
    /\ \E e \in GetErrors :
         LET r == Response("error", 500, <<e>>, 0, 0)
         IN /\ w' = [w EXCEPT ![i] = r]
            /\ served' = Append(served,
                   [proc |-> i, path |-> path[i], fetched |-> fetched[i] + 1,
                    waiting |-> Waiting(i), w |-> r])
    /\ pc' = [pc EXCEPT ![i] = "unlock"]
    /\ UNCHANGED <<mu, path, resp, buf, pre, nreq>>
    /\ UNCHANGED xvars

\* GetFail that returns without the deferred Unlock.
GetFail_NoUnlock(i) ==
    /\ pc[i] = "get"
    /\ fetched' = [fetched EXCEPT ![i] = @ + 1]
    /\ \E e \in GetErrors :
         LET r == Response("error", 500, <<e>>, 0, 0)
         IN /\ w' = [w EXCEPT ![i] = r]
            /\ served' = Append(served,
                   [proc |-> i, path |-> path[i], fetched |-> fetched[i] + 1,
                    waiting |-> Waiting(i), w |-> r])
    /\ pc' = [pc EXCEPT ![i] = "idle"]
    /\ pre' = [pre EXCEPT ![i] = <<>>]
    /\ UNCHANGED <<cache, mu, path, resp, buf, nreq>>
    /\ UNCHANGED xvars

\* Lines 51-55: rd.client.Get fails; http.Error and return.
GetFail(i) ==
    /\ pc[i] = "get"
    /\ fetched' = [fetched EXCEPT ![i] = @ + 1]
    /\ \E e \in GetErrors :
         LET r == Response("error", 500, <<e>>, 0, 0)
         IN /\ w' = [w EXCEPT ![i] = r]
            /\ served' = Append(served,
                   [proc |-> i, path |-> path[i], fetched |-> fetched[i] + 1,
                    waiting |-> Waiting(i), w |-> r])
    /\ pc' = [pc EXCEPT ![i] = "unlock"]
    /\ UNCHANGED <<cache, mu, path, resp, buf, pre, nreq>>
    /\ UNCHANGED xvars

\* Line 51: rd.client.Get returns a response.
GetOk(i) ==
    /\ pc[i] = "get"
    /\ fetched' = [fetched EXCEPT ![i] = @ + 1]
    /\ \E code \in StatusCodes, body \in Bodies :
         resp' = [resp EXCEPT ![i] = Fetched(code, body)]
    /\ pc' = [pc EXCEPT ![i] = "render"]
    /\ UNCHANGED <<cache, mu, path, buf, w, pre, served, nreq>>
    /\ UNCHANGED xvars

\* Rendered that keeps the output of extract only when the body was read
\* to its end.
Rendered_DropOnError(body) ==
    IF extract(body).err = "EOF" THEN Preamble \o extract(body).out
    ELSE Preamble

\* Lines 58-68: the preamble, then what extract returns; its error is
\* dropped (out, _ := extract(resp.Body)).
Rendered(body) == Preamble \o extract(body).out

Render(i) ==
    /\ pc[i] = "render"
    /\ buf' = [buf EXCEPT ![i] = Rendered(resp[i].Body)]
    /\ pc' = [pc EXCEPT ![i] = "evict"]
    /\ UNCHANGED <<cache, mu, path, resp, w, pre, fetched, served, nreq>>
    /\ UNCHANGED xvars

\* Evicted that never drops the cache.
Evicted_Never(c) == c

\* Evicted that drops the cache one entry later.
Evicted_OffByOne(c) == IF Size(c) > CacheLimit + 1 THEN <<>> ELSE c

\* Evicted that drops the cache one entry sooner.
Evicted_AtLimit(c) == IF Size(c) >= CacheLimit THEN <<>> ELSE c

\* Lines 71-76: a cache of more than CacheLimit entries is dropped whole
\* (a nil map and a new map both have no entries).
Evicted(c) == IF Size(c) > CacheLimit THEN <<>> ELSE c

Evict(i) ==
    /\ pc[i] = "evict"
    /\ cache' = Evicted(cache)
    /\ pc' = [pc EXCEPT ![i] = "insert"]
    /\ UNCHANGED <<mu, path, resp, buf, w, pre, fetched, served, nreq>>
    /\ UNCHANGED xvars

\* Lines 77-81: rd.cache[r.URL.Path] = &page{code, content}; hits is 0.
Inserted(c, p, pg) ==
    [q \in DOMAIN c \cup {p} |-> IF q = p THEN pg ELSE c[q]]

Insert(i) ==
    /\ pc[i] = "insert"
    /\ cache' = Inserted(cache, path[i], page(0, resp[i].StatusCode, buf[i]))
    /\ pc' = [pc EXCEPT ![i] = "serve"]
    /\ UNCHANGED <<mu, path, resp, buf, w, pre, fetched, served, nreq>>
    /\ UNCHANGED xvars

\* Hit that sets the counter instead of incrementing it.
Hit_Reset(c, p) == [c EXCEPT ![p].hits = 1]

\* Lines 84-89.  p points to the page rd.cache holds for the path: line 49
\* or line 81 set it, and the mutex keeps the map as it is until here.
Hit(c, p) == [c EXCEPT ![p].hits = @ + 1]

Serve(i) ==
    /\ pc[i] = "serve"
    /\ path[i] \in DOMAIN cache
    /\ cache' = Hit(cache, path[i])
    /\ LET p == cache'[path[i]]
           r == Response("page", p.code, p.content, p.hits, Size(cache'))
       IN /\ w' = [w EXCEPT ![i] = r]
          /\ served' = Append(served,
                 [proc |-> i, path |-> path[i], fetched |-> fetched[i],
                  waiting |-> Waiting(i), w |-> r])
    /\ pc' = [pc EXCEPT ![i] = "unlock"]
    /\ UNCHANGED <<mu, path, resp, buf, pre, fetched, nreq>>
    /\ UNCHANGED xvars

\* Line 47 (and 56): the deferred rd.mu.Unlock() as ServeHTTP returns; the
\* locals of the call are gone.
Unlock(i) ==
    /\ pc[i] = "unlock"
    /\ mu' = 0
    /\ pc' = [pc EXCEPT ![i] = "idle"]
    /\ resp' = [resp EXCEPT ![i] = NoFetch]
    /\ buf' = [buf EXCEPT ![i] = <<>>]
    /\ pre' = [pre EXCEPT ![i] = <<>>]
    /\ UNCHANGED <<cache, path, w, fetched, served, nreq>>
    /\ UNCHANGED xvars

XInitVars ==
    /\ xpc = "loop"
    /\ consumed = <<>>
    /\ inArticle = XInit.inArticle
    /\ discardStack = XInit.discardStack
    /\ out = XInit.out
    /\ xlog = XInit.log
    /\ xerr = "none"
    /\ zend = "open"

\* An extraction on its own: the server is as constructed and stays so.
InitExtract == XInitVars /\ SInit /\ cache = WarmCache(0)

NextExtract ==
    \/ TextToken
    \/ SelfClosingTagToken
    \/ StartTagToken
    \/ EndTagToken
    \/ ErrorToken

SpecExtract == InitExtract /\ [][NextExtract]_vars

\* The same loop over streams of the tags div and span (both in the case
\* lists of lines 135 and 158) and of the tags b and i (in none).
DivSpanStartTokens == {StartTok("article", <<>>), StartTok("span", <<>>),
                       StartTok("b", <<>>)}
DivSpanEndTokens == {EndTok("div"), EndTok("span"), EndTok("b"), EndTok("i")}

\* case html.StartTagToken (line 130)
DivSpanStartTagToken ==
    /\ XCanRead
    /\ \E t \in DivSpanStartTokens : XApply(t)
    /\ UNCHANGED svars

\* case html.EndTagToken (line 154)
DivSpanEndTagToken ==
    /\ XCanRead
    /\ \E t \in DivSpanEndTokens : XApply(t)
    /\ UNCHANGED svars

NextDivSpan ==
    \/ TextToken
    \/ DivSpanStartTagToken
    \/ DivSpanEndTagToken
    \/ ErrorToken

SpecDivSpan == InitExtract /\ [][NextDivSpan]_vars

Init == XInitVars /\ SInit

Next ==
    \E i \in Procs :
        \/ Request(i)
        \/ Lock(i)
        \/ Lookup(i)
        \/ GetFail(i)
        \/ GetOk(i)
        \/ Render(i)
        \/ Evict(i)
        \/ Insert(i)
        \/ Serve(i)
        \/ Unlock(i)

Spec == Init /\ [][Next]_vars

\* The scheduling of the handler: a goroutine that holds rd.mu runs its
\* next statement, rd.client.Get returns (a response or an error), and a
\* goroutine blocked in rd.mu.Lock() gets the mutex when it is free again
\* and again.  Nothing makes a client send a request.
Inside(i) ==
    \/ Lookup(i)
    \/ GetFail(i)
    \/ GetOk(i)
    \/ Render(i)
    \/ Evict(i)
    \/ Insert(i)
    \/ Serve(i)
    \/ Unlock(i)

Fairness ==
    \A i \in Procs :
        /\ SF_vars(Lock(i))
        /\ WF_vars(Inside(i))

SpecFair == Init /\ [][Next]_vars /\ Fairness

---------------------------------------------------------------------------
(* Properties of readium.ServeHTTP, checked under Spec.                    *)

\* A request that has returned from its statements and is about to run the
\* deferred Unlock: its response is written, its locals are still there.
Returning(i) == pc[i] = "unlock"

\* The request missed the cache and its fetch returned a response.
MissFetched(i) ==
    /\ Returning(i)
    /\ path[i] \notin DOMAIN pre[i]
    /\ w[i].kind = "page"

\* C1: at most one request at a time is between the cache lookup and the
\* write of its response, and that request holds the mutex; while one request
\* fetches, every other one is outside the locked statements (idle or
\* waiting at Lock), so it neither reads nor changes the cache.
C1_OneRequestInside ==
    \A i \in Procs :
        pc[i] \in Locked =>
            /\ mu = i
            /\ \A j \in Procs \ {i} : pc[j] \in {"idle", "lock"}

\* One request is fetching and another waits at Lock for a different path
\* that the cache already holds.
C1_Witness ==
    \E i, j \in Procs :
        /\ i # j
        /\ pc[i] = "get"
        /\ pc[j] = "lock"
        /\ path[j] # path[i]
        /\ path[j] \in DOMAIN cache

\* C2: the cache never holds more than CacheLimit + 1 entries, and holds at
\* most CacheLimit entries when a new entry is about to be inserted.
C2_SizeBounded ==
    /\ Size(cache) <= CacheLimit + 1
    /\ \A i \in Procs : pc[i] = "insert" => Size(cache) <= CacheLimit

\* A request is about to insert after the cache of CacheLimit + 1 entries it
\* found was dropped.
C2_Witness ==
    \E i \in Procs :
        /\ pc[i] = "insert"
        /\ Size(pre[i]) = CacheLimit + 1
        /\ Size(cache) = 0

\* C3: a miss whose fetch succeeds on a cache of CacheLimit + 1 entries
\* leaves the cache with the new entry alone; the response reports a cache
\* size of 1 and a hit count of 1.
C3_WipeThenInsert ==
    \A i \in Procs :
        (MissFetched(i) /\ Size(pre[i]) = CacheLimit + 1) =>
            /\ DOMAIN cache = {path[i]}
            /\ Size(cache) = 1
            /\ cache[path[i]] = page(1, resp[i].StatusCode, buf[i])
            /\ w[i].xCacheSize = 1
            /\ w[i].xCacheHits = 1

C3_Witness ==
    \E i \in Procs :
        /\ MissFetched(i)
        /\ Size(pre[i]) = CacheLimit + 1
        /\ w[i].xCacheSize = 1

\* C4: a miss whose fetch succeeds on a cache of at most CacheLimit entries
\* fetches once and inserts one entry: the cache is the one the request found
\* plus the entry of its path, every other entry unchanged.
C4_MissInsertsOne ==
    \A i \in Procs :
        (MissFetched(i) /\ Size(pre[i]) <= CacheLimit) =>
            /\ fetched[i] = 1
            /\ DOMAIN cache = DOMAIN pre[i] \cup {path[i]}
            /\ Size(cache) = Size(pre[i]) + 1
            /\ \A q \in DOMAIN pre[i] : cache[q] = pre[i][q]

\* The miss happens on a cache of exactly CacheLimit entries.
C4_Witness ==
    \E i \in Procs :
        /\ MissFetched(i)
        /\ Size(pre[i]) = CacheLimit
        /\ Size(cache) = CacheLimit + 1

\* The responses k..m of the log are pages of one path.
SamePathRun(k, m) ==
    \A j \in k..m :
        /\ served[j].w.kind = "page"
        /\ served[j].path = served[k].path

\* C5: when a path is served n times in a row, starting with the miss that
\* inserts it, the hit counts reported are 1, 2, ..., n, no serve after the
\* first fetches, and every serve reports the status, the content and the
\* cache size of the first; any two serves of a path in a row report hit
\* counts that differ by one.
C5_ServedInARow ==
    \A k \in 1..Len(served) : \A m \in k..Len(served) :
        SamePathRun(k, m) =>
            \A j \in k..m :
                /\ served[j].w.xCacheHits = served[k].w.xCacheHits + (j - k)
                /\ served[k].fetched = 1 => served[j].w.xCacheHits = j - k + 1
                /\ j > k => served[j].fetched = 0
                /\ served[j].w.status = served[k].w.status
                /\ served[j].w.body = served[k].w.body
                /\ served[j].w.xCacheSize = served[k].w.xCacheSize

\* A miss and then a hit of the same path, with nothing served between.
C5_Witness ==
    \E k \in 1..Len(served) - 1 :
        /\ SamePathRun(k, k + 1)
        /\ served[k].fetched = 1
        /\ served[k + 1].w.xCacheHits = 2

\* C6: a miss whose fetch fails answers with status 500 and leaves the cache
\* as the request found it, without the path; the next serve of that path
\* fetches again.
C6_FetchFailure ==
    /\ \A i \in Procs :
        (Returning(i) /\ w[i].kind = "error") =>
            /\ w[i].status = 500
            /\ w[i].body \in {<<e>> : e \in GetErrors}
            /\ fetched[i] = 1
            /\ cache = pre[i]
            /\ path[i] \notin DOMAIN cache
    /\ \A k \in 1..Len(served) - 1 :
        (served[k].w.kind = "error" /\ served[k + 1].path = served[k].path)
            => served[k + 1].fetched = 1

\* The fetch fails on a cache of more than CacheLimit entries.
C6_Witness ==
    \E i \in Procs :
        /\ Returning(i)
        /\ w[i].kind = "error"
        /\ Size(cache) = CacheLimit + 1

\* The request failed: its fetch failed, or the tokens of the fetched body
\* ended with an error other than io.EOF.
Failed(i) ==
    \/ w[i].kind = "error"
    \/ (w[i].kind = "page" /\ fetched[i] = 1
        /\ resp[i].Body.err # "EOF")

\* C7: a request that failed, by its fetch or by the token stream of the
\* body, leaves the cache as it found it.
C7_FailureLeavesCache ==
    \A i \in Procs : (Returning(i) /\ Failed(i)) => cache = pre[i]

\* C8: when the fetch succeeds and the token stream fails, the response is
\* a page: the preamble and the output of the tokens read before the
\* failure, with the status code of the fetch; the error is not in it.
C8_PartialOutputServed ==
    \A i \in Procs :
        (Returning(i) /\ fetched[i] = 1 /\ resp[i] # NoFetch
         /\ resp[i].Body.err # "EOF") =>
            /\ w[i].kind = "page"
            /\ w[i].status = resp[i].StatusCode
            /\ w[i].body =
                 Preamble \o extract(Doc(resp[i].Body.tokens, "EOF")).out
            /\ \A n \in 1..Len(w[i].body) : w[i].body[n] # resp[i].Body.err

\* The body cut short inside its paragraph is served with status 404 up to
\* the text of the paragraph.
C8_Witness ==
    \E i \in Procs :
        /\ Returning(i)
        /\ resp[i] = Fetched(404, CutDoc)
        /\ w[i].status = 404
        /\ w[i].body = Preamble \o
              <<"<", "p", " ", "href", "=\"", "u", "\"",
                "title", "=\"", "t", "\"", ">\n", "x">>

---------------------------------------------------------------------------
(* Properties of extract, checked under SpecExtract.                       *)

IsTag(t, type, name) == t.type = type /\ t.name = name

\* The places of the article start tags and end tags read so far.
ArticleStarts ==
    {k \in 1..Len(consumed) : IsTag(consumed[k], "StartTag", "article")}
ArticleEnds ==
    {k \in 1..Len(consumed) : IsTag(consumed[k], "EndTag", "article")}

\* Start and end tags nest properly in seq, starting from the open tags of
\* stack.
RECURSIVE Nested(_, _)
Nested(seq, stack) ==
    IF seq = <<>> THEN stack = <<>>
    ELSE LET t == Head(seq)
         IN CASE t.type = "StartTag" ->
                   Nested(Tail(seq), Append(stack, t.name))
              [] t.type = "EndTag" ->
                   /\ stack # <<>>
                   /\ stack[Len(stack)] = t.name
                   /\ Nested(Tail(seq), SubSeq(stack, 1, Len(stack) - 1))
              [] OTHER -> Nested(Tail(seq), stack)

WellFormed(seq) == Nested(seq, <<>>)

\* A token an article built from the allow-lists may hold.
RegionToken(t) ==
    \/ t.type = "Text"
    \/ t.type \in {"StartTag", "EndTag"} /\ t.name \in ContentTags
    \/ t.type = "SelfClosingTag" /\ t.name \in VoidTags

\* The tokens read so far hold one article, closed, and Region is what is
\* between its tags.
RegionStart == CHOOSE k \in ArticleStarts : TRUE
RegionEnd == CHOOSE k \in ArticleEnds : TRUE
Region == SubSeq(consumed, RegionStart + 1, RegionEnd - 1)

OneRegion ==
    /\ Cardinality(ArticleStarts) = 1
    /\ Cardinality(ArticleEnds) = 1
    /\ RegionStart < RegionEnd
    /\ \A n \in 1..Len(Region) : RegionToken(Region[n])
    /\ WellFormed(Region)

\* The attributes of a tag that the claim keeps, each as k="v".
KeptAttr(a) == a.k \in {"src", "title", "role", "href"}

RECURSIVE Joined(_)
Joined(attrs) ==
    IF attrs = <<>> THEN <<>>
    ELSE <<Head(attrs).k, "=\"", Head(attrs).v, "\"">> \o Joined(Tail(attrs))

\* What the claim expects for the tokens of a region, in their order.
RECURSIVE Expected(_)
Expected(seq) ==
    IF seq = <<>> THEN <<>>
    ELSE LET t == Head(seq)
             kept == Joined(SelectSeq(t.attrs, KeptAttr))
         IN (CASE t.type = "Text" -> <<t.text>>
               [] t.type = "EndTag" -> <<"</", t.name, ">\n">>
               [] OTHER -> <<"<", t.name, " ">> \o kept \o <<">\n">>)
            \o Expected(Tail(seq))

\* C9: when the tokens read hold one well-formed article built from content
\* tags, br or img and text, the output is those tags and texts in their
\* order, each tag with its src, title, role and href attributes in their
\* order, and nothing of the tokens before or after the article.
C9_RegionExtracted == OneRegion => out = Expected(Region)

\* A paragraph with attributes and a text, in an article, read to the end.
C9_Witness ==
    /\ OneRegion
    /\ xpc = "returned"
    /\ Len(Region) = 3
    /\ out = <<"<", "p", " ", "href", "=\"", "u", "\"",
               "title", "=\"", "t", "\"", ">\n", "x", "</", "p", ">\n">>

\* The state of the loop after the first n tokens read.
StateAfter(n) == ExtractLoop(XInit, SubSeq(consumed, 1, n))

\* The start tag of a tag outside every list.
UnknownStart(t) ==
    t.type = "StartTag" /\ t.name \notin ContentTags \cup {"article"}

\* The token read last is the end tag that matches the unknown start tag at
\* place k, read inside the article, with well-formed tokens between.
ClosesUnknown(k) ==
    LET m == Len(consumed)
    IN /\ k < m
       /\ UnknownStart(consumed[k])
       /\ StateAfter(k - 1).inArticle
       /\ IsTag(consumed[m], "EndTag", consumed[k].name)
       /\ WellFormed(SubSeq(consumed, k + 1, m - 1))

\* C10: from an unknown start tag read inside the article to its matching
\* end tag, with well-formed descendants, nothing is appended to the output,
\* and after the end tag the discard stack is what it was before the start
\* tag.
C10_UnknownSubtreeSkipped ==
    \A k \in 1..Len(consumed) :
        ClosesUnknown(k) =>
            /\ out = StateAfter(k - 1).out
            /\ discardStack = StateAfter(k - 1).discardStack

\* The state of the loop before the token read last, and that token.
Prev == StateAfter(Len(consumed) - 1)
Last == consumed[Len(consumed)]

\* C11: when the reader fails after some tokens, extract returns the error
\* of the reader and the output of the tokens read before it, which is the
\* output it returns when the input ends after the same tokens.
C11_ErrorReturnsPartialOutput ==
    (xpc = "returned" /\ zend = "read error") =>
        /\ xerr = "unexpected EOF"
        /\ out = extract(Doc(consumed, "EOF")).out

\* The reader fails inside a paragraph: the text read so far is returned.
C11_Witness ==
    /\ xpc = "returned"
    /\ zend = "read error"
    /\ xerr = "unexpected EOF"
    /\ Len(consumed) < MaxTokens
    /\ out = <<"<", "p", " ", "href", "=\"", "u", "\"",
               "title", "=\"", "t", "\"", ">\n", "x">>

\* C12: when the input ends without a failure of the reader, extract
\* returns the output with a nil error.
C12_EndOfStreamNilError ==
    (xpc = "returned" /\ zend = "end of input") => xerr = "nil"

\* C13 as stated: an end tag div read inside the article right after the
\* start tag of a span finds span on top of the discard stack, logs a
\* warning and leaves span there.
C13_DivOnSpan ==
    (/\ Len(consumed) >= 2
     /\ Last = EndTok("div")
     /\ consumed[Len(consumed) - 1] = StartTok("span", <<>>)
     /\ Prev.inArticle) =>
        /\ Len(xlog) = Len(Prev.log) + 1
        /\ discardStack # <<>>
        /\ discardStack[Len(discardStack)] = "span"

\* C13, amended to tags outside the lists: an end tag i read inside the
\* article when b is on top of the discard stack logs the mismatch and leaves
\* the stack as it is, and as long as no end tag b is read the output stays
\* what it was and the stack keeps its entries.
C13_MismatchKeepsStack ==
    \A m \in 1..Len(consumed) :
        LET P == StateAfter(m - 1)
            n == Len(P.discardStack)
        IN (/\ consumed[m] = EndTok("i")
            /\ P.inArticle
            /\ n > 0
            /\ P.discardStack[n] = "b") =>
               /\ StateAfter(m).discardStack = P.discardStack
               /\ StateAfter(m).log =
                     Append(P.log, <<"stack is", "i", P.discardStack>>)
               /\ (\A k \in (m + 1)..Len(consumed) : consumed[k] # EndTok("b"))
                    => /\ out = P.out
                       /\ Len(discardStack) >= n
                       /\ SubSeq(discardStack, 1, n) = P.discardStack

\* <article><b></i>x: the warning is logged, b stays and the text is
\* dropped.
C13_Witness ==
    /\ consumed = <<StartTok("article", <<>>), StartTok("b", <<>>),
                    EndTok("i"), TextTok("x")>>
    /\ discardStack = <<"b">>
    /\ xlog = <<<<"stack is", "i", <<"b">>>>>>
    /\ out = <<>>

\* The name of the tag is in neither case list and is not article.
UnknownName(name) == name \notin ContentTags \cup {"article"}

\* C14: an end tag that is neither article nor a content tag, read while
\* inArticle, leaves the output and inArticle as they are and the loop
\* running; on an empty stack it logs a warning and leaves the stack empty,
\* on a stack whose top is another name it logs a warning and leaves the
\* stack as it is, and on a stack whose top is its name it removes that one
\* element and logs nothing.
C14_UnknownEndTag ==
    [][(/\ consumed' # consumed
        /\ consumed'[Len(consumed')].type = "EndTag"
        /\ UnknownName(consumed'[Len(consumed')].name)
        /\ inArticle) =>
          LET name == consumed'[Len(consumed')].name
              n == Len(discardStack)
          IN /\ out' = out
             /\ inArticle' = inArticle
             /\ xpc' = "loop"
             /\ xerr' = "none"
             /\ IF n = 0
                THEN /\ discardStack' = <<>>
                     /\ Len(xlog') = Len(xlog) + 1
                     /\ SubSeq(xlog', 1, Len(xlog)) = xlog
                ELSE IF discardStack[n] # name
                THEN /\ discardStack' = discardStack
                     /\ Len(xlog') = Len(xlog) + 1
                     /\ SubSeq(xlog', 1, Len(xlog)) = xlog
                ELSE /\ discardStack' = SubSeq(discardStack, 1, n - 1)
                     /\ xlog' = xlog]_vars

\* The three cases in one stream: <article></b><b></i></b>.
C14_Witness ==
    /\ consumed = <<StartTok("article", <<>>), EndTok("b"),
                    StartTok("b", <<>>), EndTok("i"), EndTok("b")>>
    /\ Len(xlog) = 2
    /\ discardStack = <<>>
    /\ inArticle

\* The article elements open after the tokens of seq, d of them being open
\* before: a start tag opens one, an end tag closes the innermost open one.
RECURSIVE OpenArticles(_, _)
OpenArticles(seq, d) ==
    IF seq = <<>> THEN d
    ELSE LET t == Head(seq)
         IN OpenArticles(Tail(seq),
                IF IsTag(t, "StartTag", "article") THEN d + 1
                ELSE IF IsTag(t, "EndTag", "article") /\ d > 0 THEN d - 1
                ELSE d)

\* C15: inArticle is true exactly when an article start tag read so far has
\* not been closed by its matching end tag, also when articles are nested.
C15_InArticleMatchesNesting == inArticle = (OpenArticles(consumed, 0) > 0)

---------------------------------------------------------------------------
(* Concurrent requests of one path, checked under Spec.                    *)

\* The pages of path p written at the positions a..b of the log.
PagesOf(p, a, b) ==
    {j \in a..b : served[j].w.kind = "page" /\ served[j].path = p}

\* A request that fetched and found rd.cache over the limit at line 71
\* writes a page that reports a cache of one entry, its own.
Wiped(j) ==
    /\ served[j].w.kind = "page"
    /\ served[j].fetched = 1
    /\ served[j].w.xCacheSize = 1

\* C17: rd.client.Get is called for a path only while rd.cache does not hold
\* it, and no request calls it twice.  Once a request has fetched and
\* inserted a path, every later page of that path, whichever request writes
\* it, is served from that entry without a fetch as long as the cache is
\* not wiped in between, and it reports as hit count its place among the
\* pages of the path since the insert: 1 for the request that fetched, then
\* 2, 3, ... in the order the requests held the mutex.
C17_OneFetchThenHits ==
    /\ \A i \in Procs :
        /\ fetched[i] \in {0, 1}
        /\ pc[i] \in {"get", "render", "evict", "insert"} =>
              /\ mu = i
              /\ path[i] \notin DOMAIN cache
    /\ \A k \in 1..Len(served) :
        (served[k].w.kind = "page" /\ served[k].fetched = 1) =>
            /\ served[k].w.xCacheHits = 1
            /\ \A m \in (k + 1)..Len(served) :
                 ( /\ served[m].w.kind = "page"
                   /\ served[m].path = served[k].path
                   /\ \A j \in (k + 1)..m : ~Wiped(j) ) =>
                     /\ served[m].fetched = 0
                     /\ served[m].w.xCacheHits =
                            Cardinality(PagesOf(served[k].path, k, m))
                     /\ served[m].w.body = served[k].w.body
                     /\ served[m].w.status = served[k].w.status

\* Two requests of one uncached path are under way together: one has
\* fetched and reported hit 1 while the other was blocked at line 46, and
\* the other has then been served without a fetch and reported hit 2.
C17_Witness ==
    /\ Len(served) = 2
    /\ served[1].waiting = {served[2].proc}
    /\ served[1].proc # served[2].proc
    /\ served[1].path = served[2].path
    /\ served[1].w.kind = "page" /\ served[2].w.kind = "page"
    /\ served[1].fetched = 1 /\ served[2].fetched = 0
    /\ served[1].w.xCacheHits = 1 /\ served[2].w.xCacheHits = 2

---------------------------------------------------------------------------
(* Progress of readium.ServeHTTP, checked under SpecFair.                  *)

\* C18: a request that has returned holds rd.mu no longer, whichever exit
\* it took, and a request holding rd.mu gives it up; so every request that
\* has started, also one blocked in rd.mu.Lock(), writes its response and
\* returns.
C18_EveryRequestAnswered ==
    /\ [](\A i \in Procs : pc[i] = "idle" => mu # i)
    /\ \A i \in Procs :
        /\ (mu = i) ~> (mu # i)
        /\ (pc[i] = "lock") ~> (w[i].kind # "none" /\ pc[i] = "idle")

\* A request whose fetch failed has answered 500 and returned while another
\* request of the same path was blocked in rd.mu.Lock(); that one has then
\* been answered too, and the mutex is free.
C18_Witness ==
    /\ Len(served) = 2
    /\ served[1].w.kind = "error"
    /\ served[1].waiting = {served[2].proc}
    /\ served[2].w.kind \in {"page", "error"}
    /\ mu = 0
    /\ \A i \in Procs : pc[i] = "idle" /\ w[i].kind # "none"

---------------------------------------------------------------------------
(* The discard stack of extract, checked under SpecExtract.                *)

\* The last token read is a start or end tag of article or of a content
\* tag, or a self-closing tag of any name.
LastIsKnownOrSelfClosing ==
    \/ Last.type = "SelfClosingTag"
    \/ /\ Last.type \in {"StartTag", "EndTag"}
       /\ ~UnknownName(Last.name)

\* C19: every name on the discard stack is the name of a tag that is
\* neither article nor a content tag; and a start or end tag of article or
\* of a content tag, or a self-closing tag of any name, leaves the discard
\* stack as it was before the token.
C19_StackHoldsUnknownNames ==
    /\ \A k \in 1..Len(discardStack) : UnknownName(discardStack[k])
    /\ (Len(consumed) > 0 /\ LastIsKnownOrSelfClosing) =>
           discardStack = Prev.discardStack

\* <article><b><p href class title><hr/></p>: inside the unknown b, the
\* paragraph tags and the self-closing hr are read and the stack is still
\* the one name b.
C19_Witness ==
    /\ consumed = <<StartTok("article", <<>>), StartTok("b", <<>>),
                    StartTok("p", PAttrs), SelfClosingTok("hr", <<>>),
                    EndTok("p")>>
    /\ discardStack = <<"b">>
    /\ out = <<>>


\* The discard stack after the token is the one before it, or that one with
\* the token's name pushed (a start tag), or that one with its top popped,
\* the top being the token's name (an end tag).
StackStep(before) ==
    \/ discardStack = before
    \/ /\ Last.type = "StartTag"
       /\ discardStack = Append(before, Last.name)
    \/ /\ Last.type = "EndTag"
       /\ before = Append(discardStack, Last.name)

\* C20: a token changes the discard stack only if inArticle was true before
\* it; an article start or end tag leaves the stack as it is, so a stack
\* that is not empty at </article> is the same at every token up to and
\* including the next <article>; while the stack is not empty nothing is
\* written; and the stack shrinks only by an end tag that names its top.
C20_StackOutlivesArticle ==
    Len(consumed) > 0 =>
        LET before == Prev
        IN /\ ~before.inArticle => discardStack = before.discardStack
           /\ (Last.type \in {"StartTag", "EndTag"} /\ Last.name = "article")
                 => discardStack = before.discardStack
           /\ before.discardStack # <<>> => out = before.out
           /\ StackStep(before.discardStack)

\* <article><b></article><article>x: the b left open in the first article
\* is on the stack in the second one, and the text there is not written.
C20_Witness ==
    /\ consumed = <<StartTok("article", <<>>), StartTok("b", <<>>),
                    EndTok("article"), StartTok("article", <<>>),
                    TextTok("x")>>
    /\ inArticle
    /\ discardStack = <<"b">>
    /\ out = <<>>

============================================================================
